---------------------------- MODULE Spec2Model ----------------------------
(***************************************************************************)
(* folder_sync (src/main.py): one-way periodic mirroring of a source       *)
(* directory tree onto a replica directory tree.                           *)
(*                                                                         *)
(* The filesystem is one function from absolute paths (sequences of path   *)
(* segments) to nodes.  The interpreter's call stack of                    *)
(* synchronize_folders / delete_item is an explicit sequence of frames;    *)
(* every action is one step of the code between two filesystem calls.      *)
(* I/O failures are a property of the environment: a set of                *)
(* <<operation, path>> pairs on which the host operation raises OSError.   *)
(***************************************************************************)
EXTENDS Integers, Sequences, FiniteSets, TLC

VARIABLES
    argv,      \* sys.argv: a sequence of arguments, each a sequence of tokens
    fs,        \* the filesystem: path -> node
    faulty,    \* <<op, path>> pairs on which the host raises OSError
    pc,        \* position of main / start_sync
    stack,     \* call stack of synchronize_folders / delete_item frames
    result,    \* what the last top-level synchronize_folders call did
    log,       \* the current pass: log records <<event, path>>, and the mark
               \* <<"reverse", dir>> of every reverse pass begun
    fs0,       \* ghost: the filesystem when the current pass started
    passes,    \* ghost: number of top-level passes started
    sleeps,    \* ghost: number of sleep() calls made by start_sync
    slept,     \* ghost: argument of the last sleep() call
    crash,     \* name of the exception that ended the process, or "none"
    envChanged \* ghost: the environment changed the source between passes

vars == <<argv, fs, faulty, pc, stack, result, log, fs0, passes, sleeps,
          slept, crash, envChanged>>

-----------------------------------------------------------------------------
(* Bounds of the model *)

\* passes start_sync may start before the model stops the endless loop
MaxPasses == 2
\* number of <<operation, path>> pairs that fail in one run
MaxFaults == 1
\* depth of the directory trees below a root
MaxDepth == 2
\* length of the interval argument on the command lines tried
MaxIntervalLen == 3

-----------------------------------------------------------------------------
(* The filesystem *)

S == <<"S">>
R == <<"R">>
Roots == {S, R}

\* the entries a root directory may hold, and the entries a directory of a
\* given name may hold: the trees have the paths a, b, a/c, a/c/c, ... down
\* to depth MaxDepth
TopNames == {"a", "b"}
Layout == [n \in {"a", "b", "c"} |-> IF n = "b" THEN {} ELSE {"c"}]
Names == DOMAIN Layout
Contents == {"x", "y"}

\* the names an entry of the model's universe may have below path p
ChildNames(p) ==
    IF Len(p) = 1 THEN TopNames
    ELSE IF Len(p) <= MaxDepth THEN Layout[p[Len(p)]]
    ELSE {}

RECURSIVE Below(_)
Below(p) == {p} \cup UNION {Below(Append(p, n)) : n \in ChildNames(p)}

AllPaths == UNION {Below(r) : r \in Roots}

None == [t |-> "none", c |-> ""]
Dir == [t |-> "dir", c |-> ""]
File(c) == [t |-> "file", c |-> c]

\* os.path.join(p, item)
join(p, item) == Append(p, item)

\* os.path.exists / isdir / isfile: never raise, False when in doubt
exists(f, p) == p \in AllPaths /\ f[p].t # "none"
isdir(f, p) == p \in AllPaths /\ f[p].t = "dir"
isfile(f, p) == p \in AllPaths /\ f[p].t = "file"

\* the entries os.listdir(p) returns when it succeeds
listdir(f, p) == {n \in Names : exists(f, join(p, n))}

\* the host operation op on path p raises OSError: the environment makes it
\* fail, or the path is longer than the host accepts (ENAMETOOLONG)
fails(op, p) == <<op, p>> \in faulty \/ p \notin AllPaths

IsPrefix(p, q) == Len(p) <= Len(q) /\ SubSeq(q, 1, Len(p)) = p

-----------------------------------------------------------------------------
(* Trees the program may be started on *)

RECURSIVE NodeTrees(_)
RECURSIVE KidTrees(_, _)
\* every set of entries of a subtree whose top is path p (possibly absent)
NodeTrees(p) ==
    {{}} \cup {{<<p, File(c)>>} : c \in Contents}
         \cup {{<<p, Dir>>} \cup k : k \in KidTrees(p, ChildNames(p))}
\* every set of entries below directory p using the child names ns
KidTrees(p, ns) ==
    IF ns = {} THEN {{}}
    ELSE LET n == CHOOSE x \in ns : TRUE
         IN {a \cup b : a \in NodeTrees(join(p, n)), b \in KidTrees(p, ns \ {n})}

FsOf(entries) ==
    [p \in AllPaths |->
        IF \E e \in entries : e[1] = p
        THEN (CHOOSE e \in entries : e[1] = p)[2]
        ELSE None]

InitialFs == {FsOf(a \cup b) : a \in NodeTrees(S), b \in NodeTrees(R)}

\* the failures a run started on filesystem f, mirroring S onto R, can meet:
\* a read of a source file or of its replica counterpart, a write of the
\* replica counterpart of a source file, the creation of a missing replica
\* directory, the removal of an orphan, the listing of a directory
FaultCandidates(f) ==
    LET rel == {SubSeq(p, 2, Len(p)) : p \in Below(S)}
        orphaned(r) == \E k \in 1..Len(r) : ~exists(f, S \o SubSeq(r, 1, k))
    IN {<<"read", S \o r>> : r \in {q \in rel : isfile(f, S \o q)}}
       \cup {<<"read", R \o r>> : r \in {q \in rel : isfile(f, S \o q)}}
       \cup {<<"write", R \o r>> : r \in {q \in rel : isfile(f, S \o q)}}
       \cup {<<"mkdir", R \o r>> :
                r \in {q \in rel : isdir(f, S \o q) /\ ~exists(f, R \o q)}}
       \cup {<<"delete", R \o r>> :
                r \in {q \in rel : exists(f, R \o q) /\ orphaned(q)}}
       \cup {<<"list", S \o r>> : r \in {q \in rel : isdir(f, S \o q)}}
       \cup {<<"list", R \o r>> :
                r \in {q \in rel : isdir(f, R \o q) \/ isdir(f, S \o q)}}

-----------------------------------------------------------------------------
(* The call stack *)

\* commands['source'], commands['replica'] (main.py:28-29)
source == argv[2]
replica == argv[3]

SyncFrame(src, rep) ==
    [f |-> "sync", src |-> src, rep |-> rep, pc |-> "enter", todo |-> {}]
DelFrame(p) ==
    [f |-> "del", src |-> <<>>, rep |-> p, pc |-> "enter", todo |-> {}]

top == stack[Len(stack)]
Popped == SubSeq(stack, 1, Len(stack) - 1)
InFrame(f, at) == pc = "pass" /\ stack # <<>> /\ top.f = f /\ top.pc = at

Logged(ev, p) == log' = log \cup {<<ev, p>>}

\* return val: the caller's frame resumes; only start_sync reads the value
\* (the recursive call at main.py:168 discards it)
Return(val) ==
    /\ stack' = Popped
    /\ result' = IF Len(stack) = 1 THEN val ELSE result
    /\ UNCHANGED <<pc, crash>>

\* an exception no handler catches unwinds every frame and ends the process
Raise(exc) ==
    /\ stack' = <<>>
    /\ result' = "raised"
    /\ pc' = "crashed"
    /\ crash' = exc

Ghosts == <<argv, faulty, fs0, passes, sleeps, slept, envChanged>>

-----------------------------------------------------------------------------
(* calculate_file_hash *)

NoHash == [ok |-> FALSE, h |-> ""]

\* the MD5 digest of the file's bytes, or None when open/read raises; the
\* digest is modelled as injective on Contents
calculate_file_hash(f, filepath) ==
    IF isfile(f, filepath) /\ ~fails("read", filepath)
    THEN [ok |-> TRUE, h |-> f[filepath].c]
    ELSE NoHash

\* the error records calculate_file_hash emits for the two hashes of an item
HashErrors(f, sp, rp) ==
    {<<"err_hash", p>> : p \in {q \in {sp, rp} : ~calculate_file_hash(f, q).ok}}

-----------------------------------------------------------------------------
(* synchronize_folders *)

\* main.py:143-145
sync_source_missing ==
    /\ InFrame("sync", "enter")
    /\ ~exists(fs, top.src)
    /\ Logged("err_nosource", top.src)
    /\ Return("false")
    /\ UNCHANGED <<fs, Ghosts>>

\* main.py:147-153, mkdir raises
sync_mkdir_fails ==
    /\ InFrame("sync", "enter")
    /\ exists(fs, top.src)
    /\ ~exists(fs, top.rep)
    /\ fails("mkdir", top.rep)
    /\ Logged("err_mkdir", top.rep)
    /\ Return("false")
    /\ UNCHANGED <<fs, Ghosts>>

\* the replica directory as the checks at main.py:155-161 see it
AfterMkdir(f, rep) == IF exists(f, rep) THEN f ELSE [f EXCEPT ![rep] = Dir]

\* main.py:155-157
sync_source_not_dir ==
    /\ InFrame("sync", "enter")
    /\ exists(fs, top.src)
    /\ exists(fs, top.rep) \/ ~fails("mkdir", top.rep)
    /\ ~isdir(fs, top.src)
    /\ fs' = AfterMkdir(fs, top.rep)
    /\ log' = log \cup {<<"err_srcnotdir", top.src>>}
                  \cup (IF exists(fs, top.rep) THEN {} ELSE {<<"mkdir", top.rep>>})
    /\ Return("false")
    /\ UNCHANGED Ghosts

\* main.py:159-161
sync_replica_not_dir ==
    /\ InFrame("sync", "enter")
    /\ isdir(fs, top.src)
    /\ exists(fs, top.rep)
    /\ ~isdir(fs, top.rep)
    /\ Logged("err_repnotdir", top.rep)
    /\ Return("false")
    /\ UNCHANGED <<fs, Ghosts>>

\* both roots are directories once main.py:147-161 have run
EntersLoop ==
    /\ isdir(fs, top.src)
    /\ isdir(fs, top.rep) \/ (~exists(fs, top.rep) /\ ~fails("mkdir", top.rep))

\* main.py:147-163: the replica is created when absent, the source is listed
sync_list_source ==
    /\ InFrame("sync", "enter")
    /\ EntersLoop
    /\ ~fails("list", top.src)
    /\ fs' = AfterMkdir(fs, top.rep)
    /\ log' = log \cup (IF exists(fs, top.rep) THEN {} ELSE {<<"mkdir", top.rep>>})
    /\ stack' = [stack EXCEPT ![Len(stack)].pc = "fwd",
                              ![Len(stack)].todo = listdir(fs, top.src)]
    /\ UNCHANGED <<pc, result, crash, Ghosts>>

\* main.py:163: os.listdir(source) raises outside every try block
sync_list_source_raises ==
    /\ InFrame("sync", "enter")
    /\ EntersLoop
    /\ fails("list", top.src)
    /\ fs' = AfterMkdir(fs, top.rep)
    /\ log' = log \cup (IF exists(fs, top.rep) THEN {} ELSE {<<"mkdir", top.rep>>})
    /\ Raise("OSError")
    /\ UNCHANGED Ghosts

\* main.py:167-168: a source subdirectory: the recursive call
sync_forward_dir ==
    /\ InFrame("sync", "fwd")
    /\ \E item \in top.todo :
        /\ isdir(fs, join(top.src, item))
        /\ stack' = Append([stack EXCEPT ![Len(stack)].todo = top.todo \ {item}],
                           SyncFrame(join(top.src, item), join(top.rep, item)))
    /\ UNCHANGED <<fs, log, pc, result, crash, Ghosts>>

\* main.py:172-178: the hashes are compared only when the replica path exists
HashesMatch(f, sp, rp) ==
    exists(f, rp) /\ calculate_file_hash(f, sp) = calculate_file_hash(f, rp)

\* main.py:180-181: both opens succeed
CanCopy(f, sp, rp) ==
    /\ isfile(f, sp) /\ ~fails("read", sp)
    /\ ~isdir(f, rp) /\ ~fails("write", rp)

\* the records of the hash step of a file item
ItemHashErrors(f, sp, rp) == IF exists(f, rp) THEN HashErrors(f, sp, rp) ELSE {}

\* main.py:175-178: skip
sync_forward_skip ==
    /\ InFrame("sync", "fwd")
    /\ \E item \in top.todo :
        LET sp == join(top.src, item)
            rp == join(top.rep, item)
        IN /\ ~isdir(fs, sp)
           /\ HashesMatch(fs, sp, rp)
           /\ log' = log \cup ItemHashErrors(fs, sp, rp) \cup {<<"skip", rp>>}
           /\ stack' = [stack EXCEPT ![Len(stack)].todo = top.todo \ {item}]
    /\ UNCHANGED <<fs, pc, result, crash, Ghosts>>

\* main.py:180-183: copy the source bytes over the replica path
sync_forward_copy ==
    /\ InFrame("sync", "fwd")
    /\ \E item \in top.todo :
        LET sp == join(top.src, item)
            rp == join(top.rep, item)
        IN /\ ~isdir(fs, sp)
           /\ ~HashesMatch(fs, sp, rp)
           /\ CanCopy(fs, sp, rp)
           /\ fs' = [fs EXCEPT ![rp] = File(fs[sp].c)]
           /\ log' = log \cup ItemHashErrors(fs, sp, rp) \cup {<<"copy", rp>>}
           /\ stack' = [stack EXCEPT ![Len(stack)].todo = top.todo \ {item}]
    /\ UNCHANGED <<pc, result, crash, Ghosts>>

\* main.py:185-192: an open raised OSError; the item is left as it was
sync_forward_error ==
    /\ InFrame("sync", "fwd")
    /\ \E item \in top.todo :
        LET sp == join(top.src, item)
            rp == join(top.rep, item)
        IN /\ ~isdir(fs, sp)
           /\ ~HashesMatch(fs, sp, rp)
           /\ ~CanCopy(fs, sp, rp)
           /\ log' = log \cup ItemHashErrors(fs, sp, rp) \cup {<<"err_sync", rp>>}
           /\ stack' = [stack EXCEPT ![Len(stack)].todo = top.todo \ {item}]
    /\ UNCHANGED <<fs, pc, result, crash, Ghosts>>

\* mutant of sync_list_replica: the replica is listed while source entries
\* are still to be processed
sync_list_replica_early ==
    /\ InFrame("sync", "fwd")
    /\ ~fails("list", top.rep)
    /\ Logged("reverse", top.rep)
    /\ stack' = [stack EXCEPT ![Len(stack)].pc = "rev",
                              ![Len(stack)].todo = listdir(fs, top.rep)]
    /\ UNCHANGED <<fs, pc, result, crash, Ghosts>>

\* main.py:194: the forward loop is over, the replica is listed
sync_list_replica ==
    /\ InFrame("sync", "fwd")
    /\ top.todo = {}
    /\ ~fails("list", top.rep)
    /\ Logged("reverse", top.rep)
    /\ stack' = [stack EXCEPT ![Len(stack)].pc = "rev",
                              ![Len(stack)].todo = listdir(fs, top.rep)]
    /\ UNCHANGED <<fs, pc, result, crash, Ghosts>>

\* main.py:194: os.listdir(replica) raises outside every try block
sync_list_replica_raises ==
    /\ InFrame("sync", "fwd")
    /\ top.todo = {}
    /\ fails("list", top.rep)
    /\ Raise("OSError")
    /\ UNCHANGED <<fs, log, Ghosts>>

\* main.py:197: the replica entry has a source counterpart
sync_reverse_keep ==
    /\ InFrame("sync", "rev")
    /\ \E item \in top.todo :
        /\ exists(fs, join(top.src, item))
        /\ stack' = [stack EXCEPT ![Len(stack)].todo = top.todo \ {item}]
    /\ UNCHANGED <<fs, log, pc, result, crash, Ghosts>>

\* mutant of sync_reverse_orphan: delete_item is called on a replica entry
\* whatever the source holds
sync_reverse_orphan_any ==
    /\ InFrame("sync", "rev")
    /\ \E item \in top.todo :
        stack' = Append([stack EXCEPT ![Len(stack)].todo = top.todo \ {item}],
                        DelFrame(join(top.rep, item)))
    /\ UNCHANGED <<fs, log, pc, result, crash, Ghosts>>

\* main.py:197-198: an orphan: delete_item is called
sync_reverse_orphan ==
    /\ InFrame("sync", "rev")
    /\ \E item \in top.todo :
        /\ ~exists(fs, join(top.src, item))
        /\ stack' = Append([stack EXCEPT ![Len(stack)].todo = top.todo \ {item}],
                           DelFrame(join(top.rep, item)))
    /\ UNCHANGED <<fs, log, pc, result, crash, Ghosts>>

\* main.py:200
sync_return_true ==
    /\ InFrame("sync", "rev")
    /\ top.todo = {}
    /\ Return("true")
    /\ UNCHANGED <<fs, log, Ghosts>>

-----------------------------------------------------------------------------
(* delete_item *)

\* main.py:117-120
delete_file ==
    /\ InFrame("del", "enter")
    /\ isfile(fs, top.rep)
    /\ ~fails("delete", top.rep)
    /\ fs' = [fs EXCEPT ![top.rep] = None]
    /\ Logged("rmfile", top.rep)
    /\ Return("none")
    /\ UNCHANGED Ghosts

\* main.py:121-122
delete_file_fails ==
    /\ InFrame("del", "enter")
    /\ isfile(fs, top.rep)
    /\ fails("delete", top.rep)
    /\ Logged("err_rmfile", top.rep)
    /\ Return("none")
    /\ UNCHANGED <<fs, Ghosts>>

\* main.py:124
delete_list ==
    /\ InFrame("del", "enter")
    /\ isdir(fs, top.rep)
    /\ ~fails("list", top.rep)
    /\ stack' = [stack EXCEPT ![Len(stack)].pc = "kids",
                              ![Len(stack)].todo = listdir(fs, top.rep)]
    /\ UNCHANGED <<fs, log, pc, result, crash, Ghosts>>

\* main.py:124: os.listdir(itempath) raises outside every try block
delete_list_raises ==
    /\ InFrame("del", "enter")
    /\ ~isfile(fs, top.rep)
    /\ ~isdir(fs, top.rep) \/ fails("list", top.rep)
    /\ Raise("OSError")
    /\ UNCHANGED <<fs, log, Ghosts>>

\* main.py:124-126
delete_child ==
    /\ InFrame("del", "kids")
    /\ \E item \in top.todo :
        stack' = Append([stack EXCEPT ![Len(stack)].todo = top.todo \ {item}],
                        DelFrame(join(top.rep, item)))
    /\ UNCHANGED <<fs, log, pc, result, crash, Ghosts>>

\* os.rmdir succeeds on an empty directory the host lets go of
CanRmdir(f, p) == listdir(f, p) = {} /\ ~fails("delete", p)

\* main.py:127-129
delete_rmdir ==
    /\ InFrame("del", "kids")
    /\ top.todo = {}
    /\ CanRmdir(fs, top.rep)
    /\ fs' = [fs EXCEPT ![top.rep] = None]
    /\ Logged("rmdir", top.rep)
    /\ Return("none")
    /\ UNCHANGED Ghosts

\* main.py:130-131
delete_rmdir_fails ==
    /\ InFrame("del", "kids")
    /\ top.todo = {}
    /\ ~CanRmdir(fs, top.rep)
    /\ Logged("err_rmdir", top.rep)
    /\ Return("none")
    /\ UNCHANGED <<fs, Ghosts>>

-----------------------------------------------------------------------------
(* read_commands *)

Digits == {"1", "2"}
LowerUnits == {"s", "m", "h", "d"}
UpperUnits == {"S", "M", "H", "D"}
NL == "\n"

\* re.match(r'^\d+[smhdSMHD]$', s) (main.py:32,38); Python's $ matches at
\* the end of the string and also just before a newline that ends the string
IntervalMatches(s) ==
    LET body == IF Len(s) > 0 /\ s[Len(s)] = NL THEN SubSeq(s, 1, Len(s) - 1) ELSE s
    IN /\ Len(body) >= 2
       /\ body[Len(body)] \in LowerUnits \cup UpperUnits
       /\ \A i \in 1..(Len(body) - 1) : body[i] \in Digits

\* log_file_path.endswith('.log') (main.py:48)
EndsWithLog(s) ==
    Len(s) >= 4 /\ SubSeq(s, Len(s) - 3, Len(s)) = <<".", "l", "o", "g">>

\* main.py:13-52: TRUE when read_commands returns the dictionary, FALSE when
\* it returns None
read_commands(commands) ==
    /\ Len(commands) = 5
    /\ commands[2] # commands[3]
    /\ IntervalMatches(commands[4])
    /\ EndsWithLog(commands[5])

-----------------------------------------------------------------------------
(* start_sync *)

DigitValue == [c \in Digits |-> IF c = "1" THEN 1 ELSE 2]

\* int(s) succeeds (main.py:98)
IsInt(s) == Len(s) > 0 /\ \A i \in 1..Len(s) : s[i] \in Digits

RECURSIVE int(_)
int(s) == IF s = <<>> THEN 0
          ELSE 10 * int(SubSeq(s, 1, Len(s) - 1)) + DigitValue[s[Len(s)]]

\* str.lower() on a one-character string
lower(c) ==
    CASE c = "S" -> "s" [] c = "M" -> "m" [] c = "H" -> "h" [] c = "D" -> "d"
      [] OTHER -> c

\* main.py:99
interval_to_seconds == [u \in LowerUnits |->
    CASE u = "s" -> 1 [] u = "m" -> 60 [] u = "h" -> 3600 [] u = "d" -> 86400]

\* the keys of the dictionary at main.py:100
conversion == LowerUnits

\* the exception main.py:97-101 raises on sync_interval, or "none"
start_sync_exception(sync_interval) ==
    LET interval == sync_interval[Len(sync_interval)]
        number == SubSeq(sync_interval, 1, Len(sync_interval) - 1)
    IN IF ~IsInt(number) THEN "ValueError"
       ELSE IF lower(interval) \notin DOMAIN interval_to_seconds THEN "KeyError"
       ELSE IF interval \notin conversion THEN "KeyError"
       ELSE "none"

\* value * interval_to_seconds (main.py:107)
sleep_seconds(sync_interval) ==
    int(SubSeq(sync_interval, 1, Len(sync_interval) - 1))
        * interval_to_seconds[lower(sync_interval[Len(sync_interval)])]

\* mutant of breaks: the result of the pass is not looked at
breaks_never(res) == FALSE

\* main.py:105: the loop ends on a False result
breaks(res) == res = "false"

\* main.py:208-210: read_commands returned None
main_returns ==
    /\ pc = "main"
    /\ ~read_commands(argv)
    /\ pc' = "exit"
    /\ UNCHANGED <<fs, stack, result, log, crash, Ghosts>>

\* main.py:211-212
main_calls_start_sync ==
    /\ pc = "main"
    /\ read_commands(argv)
    /\ pc' = "start_sync"
    /\ UNCHANGED <<fs, stack, result, log, crash, Ghosts>>

\* main.py:97-101
start_sync_enter ==
    /\ pc = "start_sync"
    /\ start_sync_exception(argv[4]) = "none"
    /\ pc' = "loop"
    /\ UNCHANGED <<fs, stack, result, log, crash, Ghosts>>

\* main.py:97-101: int() or a dictionary lookup raises
start_sync_raises ==
    /\ pc = "start_sync"
    /\ start_sync_exception(argv[4]) # "none"
    /\ pc' = "crashed"
    /\ crash' = start_sync_exception(argv[4])
    /\ UNCHANGED <<fs, stack, result, log, Ghosts>>

\* main.py:102-104: the next pass starts
start_sync_pass ==
    /\ pc = "loop"
    /\ passes < MaxPasses
    /\ pc' = "pass"
    /\ stack' = <<SyncFrame(source, replica)>>
    /\ result' = "none"
    /\ log' = {}
    /\ fs0' = fs
    /\ passes' = passes + 1
    /\ UNCHANGED <<argv, fs, faulty, sleeps, slept, crash, envChanged>>

\* main.py:105-106
start_sync_break ==
    /\ pc = "pass"
    /\ stack = <<>>
    /\ breaks(result)
    /\ pc' = "exit"
    /\ UNCHANGED <<fs, stack, result, log, crash, Ghosts>>

\* main.py:107
start_sync_sleep ==
    /\ pc = "pass"
    /\ stack = <<>>
    /\ ~breaks(result)
    /\ pc' = "sleep"
    /\ sleeps' = sleeps + 1
    /\ slept' = sleep_seconds(argv[4])
    /\ UNCHANGED <<argv, fs, faulty, stack, result, log, fs0, passes, crash,
                   envChanged>>

\* main.py:107, 102: sleep() returns
start_sync_wake ==
    /\ pc = "sleep"
    /\ pc' = "loop"
    /\ UNCHANGED <<fs, stack, result, log, crash, Ghosts>>

\* the environment removes the source tree while the process sleeps
env_removes_source ==
    /\ pc = "sleep"
    /\ exists(fs, source)
    /\ fs' = [p \in AllPaths |-> IF IsPrefix(source, p) THEN None ELSE fs[p]]
    /\ envChanged' = TRUE
    /\ UNCHANGED <<argv, faulty, pc, stack, result, log, fs0, passes, sleeps,
                   slept, crash>>

-----------------------------------------------------------------------------
(* The runs *)

DefaultArgv ==
    << <<"main.py">>, S, R, <<"1", "s">>, <<"r", ".", "l", "o", "g">> >>

\* every set of at most k failures among the candidates cs
RECURSIVE FaultSets(_, _)
FaultSets(cs, k) ==
    IF k = 0 THEN {{}}
    ELSE LET less == FaultSets(cs, k - 1)
         IN less \cup {F \cup {c} : F \in less, c \in cs}

Chars == Digits \cup LowerUnits \cup UpperUnits \cup {"x", NL}

RECURSIVE Strings(_)
Strings(n) ==
    IF n = 0 THEN {<<>>}
    ELSE Strings(n - 1)
         \cup {Append(s, c) : s \in {t \in Strings(n - 1) : Len(t) = n - 1}, c \in Chars}

LogPaths == {<<"r", ".", "l", "o", "g">>, <<".", "l", "o", "g">>,
             <<"r", ".", "t", "x", "t">>, <<"l", "o", "g">>}

\* command lines of four arguments: every interval with the other arguments
\* right, and every choice of the other arguments with a few intervals; and
\* command lines of three and of five arguments
CommandLines ==
    LET intervals == {[DefaultArgv EXCEPT ![4] = i] : i \in Strings(MaxIntervalLen)}
        others == {<< <<"main.py">>, s, r, i, l >> :
                      s \in Roots, r \in Roots,
                      i \in {<<"2", "m">>, <<"2", "M">>, <<"m">>, <<"2", "m", NL>>},
                      l \in LogPaths}
    IN intervals \cup others \cup {SubSeq(DefaultArgv, 1, 4), Append(DefaultArgv, <<"x">>)}

\* the tree the command lines are run on
CommandLineFs ==
    FsOf({<<S, Dir>>, <<join(S, "a"), File("x")>>,
          <<R, Dir>>, <<join(R, "a"), File("y")>>, <<join(R, "b"), Dir>>})

InitRest ==
    /\ pc = "main"
    /\ stack = <<>>
    /\ result = "none"
    /\ log = {}
    /\ fs0 = fs
    /\ passes = 0
    /\ sleeps = 0
    /\ slept = 0
    /\ crash = "none"
    /\ envChanged = FALSE

Init ==
    /\ \/ /\ argv = DefaultArgv
          /\ fs \in InitialFs
          /\ faulty \in FaultSets(FaultCandidates(fs), MaxFaults)
       \/ /\ argv \in CommandLines
          /\ fs = CommandLineFs
          /\ faulty = {}
    /\ InitRest

Next ==
    \/ main_returns
    \/ main_calls_start_sync
    \/ start_sync_enter
    \/ start_sync_raises
    \/ start_sync_pass
    \/ start_sync_break
    \/ start_sync_sleep
    \/ start_sync_wake
    \/ env_removes_source
    \/ sync_source_missing
    \/ sync_mkdir_fails
    \/ sync_source_not_dir
    \/ sync_replica_not_dir
    \/ sync_list_source
    \/ sync_list_source_raises
    \/ sync_forward_dir
    \/ sync_forward_skip
    \/ sync_forward_copy
    \/ sync_forward_error
    \/ sync_list_replica
    \/ sync_list_replica_raises
    \/ sync_reverse_keep
    \/ sync_reverse_orphan
    \/ sync_return_true
    \/ delete_file
    \/ delete_file_fails
    \/ delete_list
    \/ delete_list_raises
    \/ delete_child
    \/ delete_rmdir
    \/ delete_rmdir_fails

Spec == Init /\ [][Next]_vars

-----------------------------------------------------------------------------
(* Runs on roots that lie inside one another *)

\* command lines read_commands accepts (the two strings differ) whose replica
\* lies inside the source, or whose source lies inside the replica
NestedCommandLines ==
    {[DefaultArgv EXCEPT ![2] = join(S, "a"), ![3] = join(join(S, "a"), "c")],
     [DefaultArgv EXCEPT ![2] = join(join(S, "a"), "c"), ![3] = join(S, "a")]}

\* main.py:168: the interpreter's recursion limit is reached before a path
\* grows longer than the host accepts (short names): RecursionError, which no
\* handler catches
sync_recursion_limit ==
    /\ InFrame("sync", "enter")
    /\ exists(fs, top.src)
    /\ top.rep \notin AllPaths
    /\ Raise("RecursionError")
    /\ UNCHANGED <<fs, log, Ghosts>>

InitNested ==
    \/ Init
    \/ /\ argv \in NestedCommandLines
       /\ fs \in {FsOf(t) : t \in NodeTrees(S)}
       /\ faulty = {}
       /\ InitRest

NextNested == Next \/ sync_recursion_limit

SpecNested == InitNested /\ [][NextNested]_vars

-----------------------------------------------------------------------------
(* Vocabulary of the properties *)

\* paths relative to a root
Rel == {SubSeq(p, 2, Len(p)) : p \in Below(S)}
InSource(r) == source \o r
InReplica(r) == replica \o r

\* a top-level call of synchronize_folders has returned
PassReturned == pc = "pass" /\ stack = <<>>
\* a top-level call of synchronize_folders has returned or raised
PassOver == pc \in {"pass", "crashed"} /\ stack = <<>> /\ result # "none"

\* the replica tree equals the source tree on filesystem f
Mirrored(f) == \A r \in Rel : f[InReplica(r)] = f[InSource(r)]

\* no relative path is a file on one side and a directory on the other
TypesAgree(f) ==
    \A r \in Rel : exists(f, InSource(r)) /\ exists(f, InReplica(r))
                      => f[InSource(r)].t = f[InReplica(r)].t

\* the pass wrote, created or deleted something
Writes == {e \in log : e[1] \in {"copy", "mkdir", "rmfile", "rmdir"}}

\* the roots with which synchronize_folders returns False (main.py:143-161)
FatalRoot(f) ==
    \/ ~exists(f, source)
    \/ ~exists(f, replica) /\ fails("mkdir", replica)
    \/ ~isdir(f, source)
    \/ exists(f, replica) /\ ~isdir(f, replica)

\* the forward pass reached the file item at relative path r
Handled(r) ==
    \E ev \in {"skip", "copy", "err_sync"} : <<ev, InReplica(r)>> \in log

-----------------------------------------------------------------------------
(* C1 *)

\* C1 (as stated): whenever the top-level synchronize_folders returns True,
\* the replica has exactly the relative paths of the source, each with the
\* same type and, for files, the same content.  Stated for runs in which no
\* host operation is made to fail, and for any starting replica.
Convergence ==
    (PassReturned /\ result = "true" /\ faulty = {}) => Mirrored(fs)

\* Lemma: the pass converges when no path has opposite types on the two sides.
ConvergenceWhereTypesAgree ==
    (PassReturned /\ result = "true" /\ faulty = {} /\ TypesAgree(fs0))
        => Mirrored(fs)

-----------------------------------------------------------------------------
(* C2 *)

\* C2 (as stated): every relative path that exists under the replica root and
\* not under the source root before a pass is gone after the pass.  Stated
\* for passes that return True with no host operation made to fail.
DeletionCorrectness ==
    (PassReturned /\ result = "true" /\ faulty = {}) =>
        \A r \in Rel \ {<<>>} :
            exists(fs0, InReplica(r)) /\ ~exists(fs0, InSource(r))
                => ~exists(fs, InReplica(r))

-----------------------------------------------------------------------------
(* C3 *)

\* C3 (as stated): in any pass a replica file byte-identical to the source
\* file at the same relative path is never written, and a pass on a replica
\* that already equals the source writes, creates and deletes nothing.
UnchangedFileSkip ==
    /\ \A r \in Rel :
          ( /\ isfile(fs0, InSource(r))
            /\ fs0[InReplica(r)] = fs0[InSource(r)] )
          => <<"copy", InReplica(r)>> \notin log /\ fs[InReplica(r)] = fs0[InReplica(r)]
    /\ (passes > 0 /\ isdir(fs0, source) /\ Mirrored(fs0)) => Writes = {}

\* Lemma: C3 holds of every run in which no host operation fails.
UnchangedFileSkipWithoutFailures == (faulty = {}) => UnchangedFileSkip

-----------------------------------------------------------------------------
(* C4 *)

\* C4 (as stated): the second of two passes in a row over an unchanged source
\* leaves the replica as the first left it and copies no file: every file
\* item present on both sides takes the skip decision.  Stated for runs in
\* which no host operation is made to fail.
Idempotence ==
    (PassReturned /\ passes = 2 /\ ~envChanged /\ faulty = {}) =>
        /\ \A r \in Rel : fs[InReplica(r)] = fs0[InReplica(r)]
        /\ \A e \in log : e[1] # "copy"
        /\ \A r \in Rel :
              (Handled(r) /\ exists(fs0, InReplica(r)))
                  => <<"skip", InReplica(r)>> \in log

\* Lemma: the second pass changes nothing and writes nothing.
SecondPassWritesNothing ==
    (PassReturned /\ passes = 2 /\ ~envChanged /\ faulty = {}) =>
        /\ \A r \in Rel : fs[InReplica(r)] = fs0[InReplica(r)]
        /\ Writes = {}

-----------------------------------------------------------------------------
(* C5 *)

\* the subtree at relative path r is the same on both sides
RECURSIVE SameSubtree(_, _)
SameSubtree(f, r) ==
    /\ f[InReplica(r)] = f[InSource(r)]
    /\ \A n \in ChildNames(InSource(r)) : SameSubtree(f, Append(r, n))

\* C5 (as stated): when exactly one file among the entries of a source
\* directory cannot be read and the pass has reached it, every other entry of
\* that directory is in the replica with the source's content, the reverse
\* pass of the directory has run, and synchronize_folders returns True.
PartialFailureIsolation ==
    \A d \in Rel : \A n \in Names :
        ( /\ PassOver /\ passes = 1
          /\ faulty = {<<"read", InSource(Append(d, n))>>}
          /\ isfile(fs0, InSource(Append(d, n)))
          /\ Handled(Append(d, n)) )
        => /\ result = "true"
           /\ <<"reverse", InReplica(d)>> \in log
           /\ \A m \in listdir(fs0, InSource(d)) \ {n} : SameSubtree(fs, Append(d, m))

\* Lemma: the isolation holds when no path has opposite types on the two sides.
PartialFailureIsolationWhereTypesAgree ==
    TypesAgree(fs0) => PartialFailureIsolation

-----------------------------------------------------------------------------
(* C6 *)

\* C6 (as stated): the top-level call returns False exactly on a fatal root
\* (source missing, replica missing and not creatable, a root that is not a
\* directory) and returns True in every other case.
ReturnContract ==
    PassOver => /\ result = "false" <=> FatalRoot(fs0)
                /\ ~FatalRoot(fs0) => result = "true"

\* Lemma: the contract holds of every top-level call that returns.
ReturnContractWhenReturning ==
    PassReturned => (result = "false" <=> FatalRoot(fs0))

-----------------------------------------------------------------------------
(* C8 *)

\* C8 (as stated): no I/O failure of a filesystem operation of the pass
\* leaves synchronize_folders or delete_item as an unhandled exception.
NoUnhandledIOError == crash # "OSError"

-----------------------------------------------------------------------------
(* C7 *)

\* passes and sleeps alternate, and the loop has ended only on a False result
SchedulerInv ==
    /\ sleeps <= passes /\ passes <= sleeps + 1
    /\ pc = "pass" => passes = sleeps + 1
    /\ (pc \in {"sleep", "loop"} /\ passes > 0) => result = "true" /\ sleeps = passes
    /\ (pc = "exit" /\ passes > 0) => result = "false" /\ passes = sleeps + 1

\* what one step of start_sync may do
SchedulerStep ==
    /\ passes' # passes =>
          /\ passes' = passes + 1
          /\ pc = "loop" /\ sleeps = passes
          /\ passes > 0 => result = "true"
    /\ sleeps' # sleeps =>
          /\ sleeps' = sleeps + 1
          /\ PassReturned /\ result = "true"
          /\ slept' = sleep_seconds(argv[4])
    /\ (PassReturned /\ result = "false") =>
          pc' = "exit" /\ passes' = passes /\ sleeps' = sleeps
    /\ (PassReturned /\ result = "true") => pc' = "sleep" /\ sleeps' = sleeps + 1
    /\ pc = "sleep" => pc' \in {"sleep", "loop"} /\ passes' = passes /\ sleeps' = sleeps
    /\ pc = "loop" => pc' = "pass" /\ passes' = passes + 1
    /\ pc # "exit"

\* C7: once a top-level pass returns False the loop ends at once, with no
\* further sleep and no further pass; a pass that returns True is followed by
\* exactly one sleep of the configured interval, and the only thing that
\* follows the sleep is the next pass.
SchedulerStop == []SchedulerInv /\ [][SchedulerStep]_vars

\* a pass returned True, one sleep followed, the next pass returned False and
\* the loop ended
SchedulerStopWitness ==
    pc = "exit" /\ passes = 2 /\ sleeps = 1 /\ result = "false"

-----------------------------------------------------------------------------
(* C9 *)

\* digits followed by one unit letter in either case
DigitsThenUnit(s) ==
    /\ Len(s) >= 2
    /\ s[Len(s)] \in LowerUnits \cup UpperUnits
    /\ \A i \in 1..(Len(s) - 1) : s[i] \in Digits

\* seconds per unit, whatever the case of the letter
UnitSeconds(c) ==
    CASE c \in {"s", "S"} -> 1 [] c \in {"m", "M"} -> 60
      [] c \in {"h", "H"} -> 3600 [] c \in {"d", "D"} -> 86400

\* C9 (as stated): for every accepted interval of digits and a unit letter in
\* either case, start_sync reaches its first pass and sleeps value times the
\* unit's seconds.
IntervalCaseInsensitive ==
    (read_commands(argv) /\ DigitsThenUnit(argv[4]) /\ pc \notin {"main", "start_sync"})
        => /\ crash = "none" \/ passes > 0
           /\ sleeps > 0 =>
                 slept = int(SubSeq(argv[4], 1, Len(argv[4]) - 1))
                            * UnitSeconds(argv[4][Len(argv[4])])

\* Lemma: C9 holds of every interval whose unit letter is lowercase.
IntervalLowercase ==
    argv[4] # <<>> /\ argv[4][Len(argv[4])] \in LowerUnits => IntervalCaseInsensitive

-----------------------------------------------------------------------------
(* C10 *)

\* the command line is one of the configuration errors
ConfigError(commands) ==
    \/ Len(commands) # 5
    \/ commands[2] = commands[3]
    \/ ~DigitsThenUnit(commands[4])
    \/ ~EndsWithLog(commands[5])

\* C10 (as stated): on a configuration error read_commands returns None and
\* main returns: start_sync is never called, no pass is started and no tree
\* is modified.
ConfigErrorsStop ==
    ConfigError(argv) =>
        /\ pc \in {"main", "exit"}
        /\ passes = 0 /\ log = {} /\ fs = fs0

\* Lemma: on every command line read_commands rejects, main returns at once.
RejectedCommandLinesStop ==
    ~read_commands(argv) =>
        pc \in {"main", "exit"} /\ passes = 0 /\ log = {} /\ fs = fs0

-----------------------------------------------------------------------------
(* C11 *)

\* a call of synchronize_folders onto replica path p is on the stack
SyncOnStack(p) ==
    \E i \in 1..Len(stack) : stack[i].f = "sync" /\ stack[i].rep = p

\* the source entry at relative path r has been processed: a file was copied,
\* skipped or failed; the recursive call for a directory has ended, by a
\* False return or after its own reverse pass
Processed(r) ==
    IF isdir(fs, InSource(r))
    THEN /\ ~SyncOnStack(InReplica(r))
         /\ \E ev \in {"err_mkdir", "err_repnotdir", "reverse"} :
                <<ev, InReplica(r)>> \in log
    ELSE Handled(r)

\* the records of delete_item
DeletionEvents == {"rmfile", "err_rmfile", "rmdir", "err_rmdir"}

\* the reverse pass of the level that holds the orphan above relative path r
\* has begun
OrphanLevelReversed(r) ==
    \E k \in 0..(Len(r) - 1) :
        /\ isdir(fs, InSource(SubSeq(r, 1, k)))
        /\ ~exists(fs, InSource(SubSeq(r, 1, k + 1)))
        /\ <<"reverse", InReplica(SubSeq(r, 1, k))>> \in log

\* C11: within a pass, once the reverse pass of a directory level has begun
\* every source entry of that level has been processed (a child directory's
\* recursive call, its reverse pass included, is over); every deletion
\* belongs to a level whose reverse pass has begun; a recursive call runs
\* only while its caller is in the forward loop, and delete_item only while
\* its caller is in the reverse pass.
PassOrdering ==
    pc \in {"pass", "crashed"} =>
        /\ \A d \in Rel :
              <<"reverse", InReplica(d)>> \in log
                  => \A n \in listdir(fs, InSource(d)) : Processed(Append(d, n))
        /\ \A e \in log :
              e[1] \in DeletionEvents
                  => OrphanLevelReversed(SubSeq(e[2], 2, Len(e[2])))
        /\ \A i \in 2..Len(stack) :
              /\ stack[i].f = "sync"
                    => stack[i - 1].f = "sync" /\ stack[i - 1].pc = "fwd"
              /\ stack[i].f = "del"
                    => \/ stack[i - 1].f = "sync" /\ stack[i - 1].pc = "rev"
                       \/ stack[i - 1].f = "del" /\ stack[i - 1].pc = "kids"

\* the orphan R/b is deleted after the recursive call for the source
\* directory a, the reverse pass of a included, and after the file a/c
PassOrderingWitness ==
    /\ pc = "pass"
    /\ <<"rmfile", join(R, "b")>> \in log
    /\ <<"reverse", join(R, "a")>> \in log
    /\ <<"copy", join(join(R, "a"), "c")>> \in log

-----------------------------------------------------------------------------
(* C12 *)

\* C12 (as stated): the outcome of a failed hash differs from every
\* fingerprint, and a file takes the skip decision only when both its source
\* hash and its replica hash were computed and are equal.
HashFailureNeverMatch ==
    /\ \A c \in Contents : [ok |-> TRUE, h |-> c] # NoHash
    /\ pc \in {"pass", "crashed"} =>
          \A r \in Rel :
              <<"skip", InReplica(r)>> \in log
                  => /\ calculate_file_hash(fs, InSource(r)).ok
                     /\ calculate_file_hash(fs, InReplica(r)).ok
                     /\ calculate_file_hash(fs, InSource(r))
                            = calculate_file_hash(fs, InReplica(r))

\* Lemma: C12 holds of every run in which no host operation is made to fail.
HashFailureNeverMatchWithoutFailures == (faulty = {}) => HashFailureNeverMatch

-----------------------------------------------------------------------------
(* C13 *)

\* the recursive call for the source directory at relative path r returned
\* False: its replica counterpart is not a directory, or cannot be created
ChildReturnedFalse(r) ==
    /\ isdir(fs0, InSource(r))
    /\ \E ev \in {"err_repnotdir", "err_mkdir"} : <<ev, InReplica(r)>> \in log

\* C13 (as stated): when the recursive call for a source subdirectory returns
\* False, its replica counterpart is as it was before the pass, and the
\* parent's call ends having processed every source entry of its level and
\* run its reverse pass, returning True.
SubtreeFailureIsolation ==
    \A d \in Rel : \A n \in ChildNames(InSource(d)) :
        ( /\ pc \in {"pass", "crashed"}
          /\ ChildReturnedFalse(Append(d, n)) )
        => /\ fs[InReplica(Append(d, n))] = fs0[InReplica(Append(d, n))]
           /\ ~SyncOnStack(InReplica(d)) =>
                 /\ \A m \in listdir(fs0, InSource(d)) : Processed(Append(d, m))
                 /\ <<"reverse", InReplica(d)>> \in log
                 /\ d = <<>> => result = "true"

\* Lemma: C13 holds of every run in which no directory listing fails.
SubtreeFailureIsolationWithoutListFailures ==
    (\A e \in faulty : e[1] # "list") => SubtreeFailureIsolation

-----------------------------------------------------------------------------
(* C14 *)

\* delete_item has tried to remove the replica path p
Attempted(p) == \E ev \in DeletionEvents : <<ev, p>> \in log

\* the replica entry at relative path r is an orphan of its level
Orphan(r) ==
    /\ r # <<>>
    /\ isdir(fs0, InSource(SubSeq(r, 1, Len(r) - 1)))
    /\ isdir(fs0, InReplica(SubSeq(r, 1, Len(r) - 1)))
    /\ exists(fs0, InReplica(r))
    /\ ~exists(fs0, InSource(r))

\* C14 (as stated): a directory is removed only after delete_item has tried
\* to remove every descendant it had; a directory that still holds an entry
\* is not removed; and when the removal of one orphan fails, the reverse pass
\* of its level still tries to remove every other orphan of the level.
BottomUpDeletion ==
    pc \in {"pass", "crashed"} =>
        /\ \A p \in AllPaths : \A q \in AllPaths :
              ( /\ <<"rmdir", p>> \in log
                /\ IsPrefix(p, q) /\ q # p /\ exists(fs0, q) )
              => Attempted(q)
        /\ \A q \in AllPaths :
              (exists(fs, q) /\ Len(q) > 1) => isdir(fs, SubSeq(q, 1, Len(q) - 1))
        /\ \A d \in Rel : \A n \in ChildNames(InSource(d)) :
              \A m \in ChildNames(InSource(d)) \ {n} :
                  ( /\ <<"reverse", InReplica(d)>> \in log
                    /\ ~SyncOnStack(InReplica(d))
                    /\ Orphan(Append(d, n)) /\ Orphan(Append(d, m))
                    /\ exists(fs, InReplica(Append(d, n))) )
                  => Attempted(InReplica(Append(d, m)))

\* Lemma: C14 holds of every run in which no directory listing fails.
BottomUpDeletionWithoutListFailures ==
    (\A e \in faulty : e[1] # "list") => BottomUpDeletion

-----------------------------------------------------------------------------
(* C15 *)

\* C15 (as stated): after a pass that returns True and in which no directory
\* creation fails, every empty source directory whose relative path had no
\* entry in the replica is an empty directory in the replica.
EmptyDirsMirrored ==
    (PassReturned /\ result = "true" /\ \A e \in faulty : e[1] # "mkdir") =>
        \A r \in Rel :
            ( /\ isdir(fs0, InSource(r))
              /\ listdir(fs0, InSource(r)) = {}
              /\ ~exists(fs0, InReplica(r)) )
            => isdir(fs, InReplica(r)) /\ listdir(fs, InReplica(r)) = {}

\* Lemma: C15 holds when no path has opposite types on the two sides.
EmptyDirsMirroredWhereTypesAgree == TypesAgree(fs0) => EmptyDirsMirrored

-----------------------------------------------------------------------------
(* C16 *)

\* neither root lies inside the other
DisjointRoots == ~IsPrefix(source, replica) /\ ~IsPrefix(replica, source)

\* C16 (as stated): for every accepted pair of roots, nested ones included,
\* a pass leaves every path under the source root as it was when the pass
\* started, and everything it creates, writes or deletes is under the
\* replica root.
OneWayFrame ==
    pc \in {"pass", "crashed"} =>
        /\ \A p \in AllPaths : IsPrefix(source, p) => fs[p] = fs0[p]
        /\ \A e \in Writes : IsPrefix(replica, e[2])

\* Lemma: C16 holds of every run whose roots are disjoint.
OneWayFrameWhereDisjoint == DisjointRoots => OneWayFrame

\* a reachable state: with the source inside the replica, the reverse pass
\* has removed the source root itself
SourceRootDeleted ==
    /\ PassReturned /\ result = "true"
    /\ IsPrefix(replica, source)
    /\ isdir(fs0, source) /\ ~exists(fs, source)
    /\ <<"rmdir", source>> \in log

-----------------------------------------------------------------------------
(* C17 *)

\* the greatest of a non-empty set of naturals
Max(ns) == CHOOSE n \in ns : \A m \in ns : m <= n

\* the depth of the directory tree at path p on filesystem f: the longest
\* chain of directories below p
RECURSIVE TreeDepth(_, _)
TreeDepth(f, p) ==
    LET subdirs == {n \in Names : isdir(f, join(p, n))}
    IN IF subdirs = {} THEN 0
       ELSE 1 + Max({TreeDepth(f, join(p, n)) : n \in subdirs})

\* the number of recursive calls of synchronize_folders that are open
RecursionDepth ==
    Cardinality({i \in 1..Len(stack) : stack[i].f = "sync"}) - 1

\* C17 (as stated): for every accepted pair of roots, nested ones included,
\* the recursion of a pass is never deeper than the source tree was when the
\* pass started, and the pass does not end on the recursion limit.
PassTermination ==
    /\ (pc = "pass" /\ stack # <<>>) => RecursionDepth <= TreeDepth(fs0, source)
    /\ crash # "RecursionError"

\* Lemma: C17 holds of every run whose roots are disjoint.
PassTerminationWhereDisjoint == DisjointRoots => PassTermination

-----------------------------------------------------------------------------
(* C18 *)

\* the relative path of a path below a root
RelOf(p) == SubSeq(p, 2, Len(p))

\* C18: with disjoint roots, during a pass delete_item is only ever called
\* on, and only ever removes, replica paths with no source counterpart (an
\* orphan or a descendant of one), and every replica entry whose relative
\* path exists under the source is still there.
NoOverDeletion ==
    (pc \in {"pass", "crashed"} /\ DisjointRoots) =>
        /\ \A i \in 1..Len(stack) :
              stack[i].f = "del"
                  => /\ IsPrefix(replica, stack[i].rep)
                     /\ ~exists(fs, InSource(RelOf(stack[i].rep)))
        /\ \A e \in log :
              e[1] \in DeletionEvents
                  => /\ IsPrefix(replica, e[2])
                     /\ ~exists(fs, InSource(RelOf(e[2])))
        /\ \A r \in Rel :
              (exists(fs0, InReplica(r)) /\ exists(fs, InSource(r)))
                  => exists(fs, InReplica(r))

\* the orphan directory R/a and its entry c have been removed, and the
\* entry R/b, which has a source counterpart, is still there
NoOverDeletionWitness ==
    /\ PassReturned
    /\ <<"rmdir", join(R, "a")>> \in log
    /\ Attempted(join(join(R, "a"), "c"))
    /\ exists(fs0, join(R, "b"))
    /\ exists(fs, join(S, "b")) /\ exists(fs, join(R, "b"))

=============================================================================
